---- MODULE Spec2Model ----
(***************************************************************************)
(* Pipeliner -> Asana webhook relay (src/index.js).  The formatters of the *)
(* job-number variant of the server (src/unnamed/part_000) are modelled    *)
(* next to those of index.js.                                              *)
(*                                                                         *)
(* One HTTP delivery is handled by an async route handler.  Between two    *)
(* awaits on the network the handler runs without interruption, so one     *)
(* step of the model is: a request arrives and the handler runs up to its  *)
(* first outbound call (or to its response), or an outbound call resolves  *)
(* or rejects and the handler runs up to the next outbound call (or to its *)
(* response).                                                              *)
(*                                                                         *)
(* Strings of the source that carry emoji are written without the emoji;   *)
(* section names are only ever compared for equality.                      *)
(***************************************************************************)
EXTENDS Integers, Sequences, FiniteSets, TLC

VARIABLES
    token,       \* config.asana.accessToken is set (truthy)
    delivery,    \* per request slot: the handler's locals, its outbound calls, its response
    nextGid,     \* the remote API's next project identifier
    mappingLog,  \* console lines "Mapping stored: Opportunity X -> Project Y"
    fin,         \* formatter input under test (SpecFormat)
    fout         \* formatter output under test (SpecFormat)

vars == <<token, delivery, nextGid, mappingLog, fin, fout>>

----------------------------------------------------------------------------
(* Bounds *)

MaxInFlight == 2    \* request slots
MaxProjects == 2    \* projects the remote API hands out in one run
MaxFailures == 1    \* outbound calls that may fail within one delivery
MaxValue == 100001  \* largest opportunity value given to the formatter
MaxMillions == 1    \* largest millions group of a number given to formatNumber
MaxDecimals == 5    \* most fractional digits of a number given to formatNumber

Slots == 1..MaxInFlight

----------------------------------------------------------------------------
(* Task Template Set: createProjectSections / createInitialTasks literals *)

Sections ==
    << "Planning", "Engineering", "Manufacturing/Panel Build", "FAT/Testing",
       "Shipping", "Commissioning", "Complete", "Documentation" >>

Tasks ==
    << [name |-> "Initial Opportunity Review",   section |-> "Planning"],
       [name |-> "Prepare Proposal/Quote",       section |-> "Planning"],
       [name |-> "Engineering Design",           section |-> "Engineering"],
       [name |-> "Panel Build",                  section |-> "Manufacturing/Panel Build"],
       [name |-> "Factory Acceptance Test (FAT)", section |-> "FAT/Testing"],
       [name |-> "Shipping Coordination",        section |-> "Shipping"],
       [name |-> "Site Commissioning",           section |-> "Commissioning"],
       [name |-> "Documentation Package",        section |-> "Documentation"] >>

NSections == Len(Sections)
NTasks == Len(Tasks)

----------------------------------------------------------------------------
(* Payloads.  `data` is a JSON object: a function from the names of the    *)
(* fields that are present to their values.  value and probability are     *)
(* numbers, every other field is a string.                                 *)

NumFields == {"value", "probability"}

Has(data, f) == f \in DOMAIN data

\* JavaScript truthiness of data[f]: undefined, 0 and "" are falsy
Truthy(data, f) ==
    /\ Has(data, f)
    /\ IF f \in NumFields THEN data[f] # 0 ELSE data[f] # ""

EmptyData == [f \in {} |-> ""]

AcmeData == [name |-> "Acme Line Upgrade", value |-> 60000]

OppData == [id |-> "opp-1", accountName |-> "Sample Company", value |-> 25000]

ActivityData == [subject |-> "Site visit", relatedOpportunityId |-> "opp-1"]

\* testData.data of POST /test (the id is `test-${Date.now()}`)
TestData ==
    [id |-> "test-0", name |-> "Equipment Upgrade Project",
     accountName |-> "Sample Company", value |-> 125000, probability |-> 75,
     stage |-> "Proposal", closeDate |-> "2025-06-30", ownerName |-> "John Smith",
     description |-> "Complete controls upgrade including new HMI, VFDs, and vision system integration.",
     projectType |-> "Control System Upgrade",
     equipmentType |-> "Production Line", facility |-> "Main Plant"]

\* an opportunity with every field the formatters read; jobNumber, jobStatus
\* and intranetJobUrl are read by src/unnamed/part_000 only
FullOpportunity ==
    TestData @@ [jobNumber |-> "JOB-2025-001", jobStatus |-> "Active",
                 intranetJobUrl |-> "https://intranet.grantek.com/job/2025-001"]

Payloads == {AcmeData, OppData, ActivityData}

Entities == {"Opportunity", "opportunity", "OPPORTUNITY",
             "Activity", "activity", "ACTIVITY", "Contact"}

Actions == {"create", "created", "Created", "update", "updated", "UPDATE", "delete"}

\* bodies of POST /webhook/pipeliner: {entity, action, data}, data possibly absent
Requests ==
    [endpoint : {"webhook"}, entity : Entities, action : Actions,
     hasData : {TRUE}, data : Payloads]
    \cup
    [endpoint : {"webhook"}, entity : Entities, action : Actions,
     hasData : {FALSE}, data : {EmptyData}]

TestRequest ==
    [endpoint |-> "test", entity |-> "Opportunity", action |-> "create",
     hasData |-> TRUE, data |-> TestData]

NoRequest ==
    [endpoint |-> "none", entity |-> "", action |-> "",
     hasData |-> FALSE, data |-> EmptyData]

----------------------------------------------------------------------------
(* Formatter *)

Digits == {"0", "1", "2", "3", "4", "5", "6", "7", "8", "9"}

CharAt(s, i) == SubSeq(s, i, i)

IsDigit(s, i) == i >= 1 /\ i <= Len(s) /\ CharAt(s, i) \in Digits

\* (?=(\d{3})+(?!\d)) at the gap before character i
GroupAhead(s, i) ==
    \E k \in 1..Len(s) :
        /\ i + 3 * k - 1 <= Len(s)
        /\ \A j \in i..(i + 3 * k - 1) : IsDigit(s, j)
        /\ ~IsDigit(s, i + 3 * k)

\* the regular expression without its leading \B
NonBoundaryDropped(s, i) == TRUE

\* \B at the gap before character i: both neighbours are word characters
\* or neither is (in num.toString() the word characters are the digits)
NonBoundary(s, i) == i > 1 /\ (IsDigit(s, i - 1) <=> IsDigit(s, i))

RECURSIVE InsertCommas(_, _)
InsertCommas(s, i) ==
    IF i > Len(s) THEN ""
    ELSE (IF NonBoundary(s, i) /\ GroupAhead(s, i) THEN "," ELSE "")
         \o CharAt(s, i) \o InsertCommas(s, i + 1)

\* num.toString().replace(/\B(?=(\d{3})+(?!\d))/g, ",")
formatNumber(num) == InsertCommas(ToString(num), 1)

RECURSIVE Pow10(_)
Pow10(k) == IF k = 0 THEN 1 ELSE 10 * Pow10(k - 1)

\* digits with zeros put in front up to the width w
RECURSIVE ZeroPad(_, _)
ZeroPad(digits, w) == IF Len(digits) >= w THEN digits ELSE ZeroPad("0" \o digits, w)

\* num.toString() of the non-integer num = +-(whole + frac / 10^k), k >= 1 and
\* frac not a multiple of 10: sign, integer part, point, the k fractional digits
DecimalToString(num) ==
    (IF num.neg THEN "-" ELSE "")
    \o ToString(num.whole) \o "." \o ZeroPad(ToString(num.frac), num.k)

\* formatNumber of a non-integer: the same replacement over its toString()
formatNumberDecimal(num) == InsertCommas(DecimalToString(num), 1)

RECURSIVE Join(_, _)
Join(parts, sep) ==
    IF parts = <<>> THEN ""
    ELSE IF Len(parts) = 1 THEN parts[1]
    ELSE parts[1] \o sep \o Join(Tail(parts), sep)

\* data[f] || lit, with no literal substituted
OrElseNothing(data, f, lit) == IF Truthy(data, f) THEN data[f] ELSE ""

\* data[f] || lit
OrElse(data, f, lit) == IF Truthy(data, f) THEN data[f] ELSE lit

\* a formatter that keeps track of having been called: the name of a second
\* project for the same payload is numbered
formatProjectNameNumbered(data) ==
    LET p1 == IF Truthy(data, "accountName") THEN <<data.accountName>> ELSE <<>>
        p2 == IF Truthy(data, "name") THEN <<data.name>> ELSE <<>>
        p3 == IF Truthy(data, "value") /\ data.value > 0
              THEN <<"($" \o formatNumber(data.value) \o ")">> ELSE <<>>
        joined == Join(p1 \o p2 \o p3, " - ")
    IN  (IF joined # "" THEN joined ELSE "New Opportunity")
        \o (IF fout.done THEN " (2)" ELSE "")

formatProjectName(data) ==
    LET p1 == IF Truthy(data, "accountName") THEN <<data.accountName>> ELSE <<>>
        p2 == IF Truthy(data, "name") THEN <<data.name>> ELSE <<>>
        p3 == IF Truthy(data, "value") /\ data.value > 0
              THEN <<"($" \o formatNumber(data.value) \o ")">> ELSE <<>>
        joined == Join(p1 \o p2 \o p3, " - ")
    IN  IF joined # "" THEN joined ELSE "New Opportunity"

\* part_000 with the opportunity name pushed before the account name
formatProjectNameJobNameFirst(data) ==
    LET p0 == IF Truthy(data, "jobNumber") THEN <<"[" \o data.jobNumber \o "]">> ELSE <<>>
        p1 == IF Truthy(data, "name") THEN <<data.name>> ELSE <<>>
        p2 == IF Truthy(data, "accountName") THEN <<data.accountName>> ELSE <<>>
        p3 == IF Truthy(data, "value") /\ data.value > 0
              THEN <<"(" \o formatNumber(data.value) \o ")">> ELSE <<>>
        joined == Join(p0 \o p1 \o p2 \o p3, " - ")
    IN  IF joined # "" THEN joined ELSE "New Opportunity"

\* formatProjectName of src/unnamed/part_000: the job number in brackets comes
\* first and the value is written without the currency sign
formatProjectNameJob(data) ==
    LET p0 == IF Truthy(data, "jobNumber") THEN <<"[" \o data.jobNumber \o "]">> ELSE <<>>
        p1 == IF Truthy(data, "accountName") THEN <<data.accountName>> ELSE <<>>
        p2 == IF Truthy(data, "name") THEN <<data.name>> ELSE <<>>
        p3 == IF Truthy(data, "value") /\ data.value > 0
              THEN <<"(" \o formatNumber(data.value) \o ")">> ELSE <<>>
        joined == Join(p0 \o p1 \o p2 \o p3, " - ")
    IN  IF joined # "" THEN joined ELSE "New Opportunity"

\* data[f] || 0
OrZero(data, f) == IF Truthy(data, f) THEN data[f] ELSE 0

\* (k / 100).toString() for an integer k: at most two fractional digits,
\* trailing zeros dropped
HundredthsToString(k) ==
    LET a == IF k < 0 THEN -k ELSE k
        whole == a \div 100
        frac == a % 100
    IN  (IF k < 0 THEN "-" ELSE "")
        \o ToString(whole)
        \o (IF frac = 0 THEN ""
            ELSE IF frac % 10 = 0 THEN "." \o ToString(frac \div 10)
            ELSE IF frac < 10 THEN ".0" \o ToString(frac)
            ELSE "." \o ToString(frac))

\* formatNumber((data.value || 0) * (data.probability || 0) / 100)
ExpectedRevenue(data) ==
    InsertCommas(HundredthsToString(OrZero(data, "value") * OrZero(data, "probability")), 1)

\* the lines pushed when the custom fields exist
CustomFieldLines(data) ==
    (IF Truthy(data, "projectType")
     THEN <<"Project Type: " \o data.projectType>> ELSE <<>>)
    \o (IF Truthy(data, "equipmentType")
        THEN <<"Equipment Type: " \o data.equipmentType>> ELSE <<>>)
    \o (IF Truthy(data, "facility")
        THEN <<"Facility: " \o data.facility>> ELSE <<>>)

\* formatProjectNotes of src/index.js; now is new Date().toISOString()
formatProjectNotes(data, now) ==
    Join(<<"=== PIPELINER OPPORTUNITY DETAILS ===\n",
           "Pipeliner ID: " \o OrElse(data, "id", "N/A"),
           "Opportunity Name: " \o OrElse(data, "name", "N/A"),
           "Account: " \o OrElse(data, "accountName", "N/A"),
           "Value: $" \o formatNumber(OrZero(data, "value")),
           "Probability: " \o ToString(OrZero(data, "probability")) \o "%",
           "Expected Revenue: $" \o ExpectedRevenue(data),
           "Stage: " \o OrElse(data, "stage", "N/A"),
           "Close Date: " \o OrElse(data, "closeDate", "Not set"),
           "Owner: " \o OrElse(data, "ownerName", "N/A")>>
         \o CustomFieldLines(data)
         \o <<"\n=== DESCRIPTION ===\n"
               \o OrElse(data, "description", "No description provided")>>
         \o (IF Truthy(data, "id")
             THEN <<"\n=== LINKS ===",
                    "View in Pipeliner: [Add your Pipeliner URL structure here]">>
             ELSE <<>>)
         \o <<"\n=== SYNC INFO ===",
               "Created from Pipeliner webhook: " \o now>>,
         "\n")

\* formatProjectNotes of src/unnamed/part_000: job number and job status
\* lines, no currency sign, the links heading always pushed
formatProjectNotesJob(data, now) ==
    Join(<<"=== PIPELINER OPPORTUNITY DETAILS ===\n",
           "Pipeliner ID: " \o OrElse(data, "id", "N/A"),
           "Job Number: " \o OrElse(data, "jobNumber", "N/A"),
           "Job Status: " \o OrElse(data, "jobStatus", "N/A"),
           "Opportunity Name: " \o OrElse(data, "name", "N/A"),
           "Account: " \o OrElse(data, "accountName", "N/A"),
           "Value: " \o formatNumber(OrZero(data, "value")),
           "Probability: " \o ToString(OrZero(data, "probability")) \o "%",
           "Expected Revenue: " \o ExpectedRevenue(data),
           "Stage: " \o OrElse(data, "stage", "N/A"),
           "Close Date: " \o OrElse(data, "closeDate", "Not set"),
           "Owner: " \o OrElse(data, "ownerName", "N/A")>>
         \o CustomFieldLines(data)
         \o <<"\n=== DESCRIPTION ===\n"
               \o OrElse(data, "description", "No description provided"),
               "\n=== LINKS ===">>
         \o (IF Truthy(data, "intranetJobUrl")
             THEN <<"Intranet Job URL: " \o data.intranetJobUrl>> ELSE <<>>)
         \o (IF Truthy(data, "id")
             THEN <<"View in Pipeliner: [Add your Pipeliner URL structure here]">>
             ELSE <<>>)
         \o <<"\n=== SYNC INFO ===",
               "Created from Pipeliner webhook: " \o now>>,
         "\n")

\* getProjectColor with >= in place of > at each threshold
getProjectColorNonStrict(data) ==
    IF Truthy(data, "value")
    THEN IF data.value >= 100000 THEN "dark-red"
         ELSE IF data.value >= 50000 THEN "dark-orange"
         ELSE IF data.value >= 25000 THEN "light-orange"
         ELSE "light-green"
    ELSE "light-blue"

getProjectColor(data) ==
    IF Truthy(data, "value")
    THEN IF data.value > 100000 THEN "dark-red"
         ELSE IF data.value > 50000 THEN "dark-orange"
         ELSE IF data.value > 25000 THEN "light-orange"
         ELSE "light-green"
    ELSE "light-blue"

----------------------------------------------------------------------------
(* Outbound calls (axios) and HTTP responses *)

Call(kind, project, item, name, color, section) ==
    [kind |-> kind, project |-> project, item |-> item,
     name |-> name, color |-> color, section |-> section]

NoResponse == [status |-> 0, success |-> "none", error |-> ""]

Idle ==
    [pc |-> "idle", req |-> NoRequest, handler |-> "none", project |-> 0,
     idx |-> 0, sections |-> {}, calls |-> <<>>, settled |-> 0, failed |-> {},
     thrown |-> FALSE, error |-> "", resp |-> NoResponse]

\* the handler issues an outbound call and awaits it
Issue(s, c) == [s EXCEPT !.pc = "await", !.calls = Append(@, c)]

\* the awaited call has returned or failed
Settle(s) == [s EXCEPT !.settled = @ + 1]

\* identifier the remote API gives section i of project p
SectionGid(p, i) == p * 100 + i

\* what GET /projects/{p}/sections answers: the project's default section and
\* the template sections whose creation call did not fail (call i + 1 of the
\* delivery created section i)
RemoteSections(s) ==
    {[name |-> "Untitled section", gid |-> SectionGid(s.project, 0)]}
    \cup {[name |-> Sections[i], gid |-> SectionGid(s.project, i)] :
            i \in {j \in 1..NSections : (j + 1) \notin s.failed}}

----------------------------------------------------------------------------
(* Mapping Store *)

IdOf(data) == IF Has(data, "id") THEN data.id ELSE "undefined"

storeProjectMapping(opportunityId, projectGid) ==
    Append(mappingLog, [opp |-> opportunityId, gid |-> projectGid])

\* a store that answers from what was put
findStoredProject(opportunityId) ==
    IF \E i \in 1..Len(mappingLog) : mappingLog[i].opp = opportunityId
    THEN mappingLog[CHOOSE i \in 1..Len(mappingLog) :
                        /\ mappingLog[i].opp = opportunityId
                        /\ \A j \in 1..Len(mappingLog) :
                              mappingLog[j].opp = opportunityId => j <= i].gid
    ELSE 0

findProjectByOpportunityId(opportunityId) == 0

----------------------------------------------------------------------------
(* Route handlers' responses *)

\* a route handler whose catch also answers 200
WebhookRespondAlwaysOk(s) ==
    [s EXCEPT !.pc = "done",
              !.resp = [status |-> 200, success |-> "true", error |-> ""]]

\* app.post('/webhook/pipeliner'): res.status(200) after the try body, or the catch
WebhookRespond(s) ==
    IF s.thrown
    THEN [s EXCEPT !.pc = "done",
                   !.resp = [status |-> 500, success |-> "false", error |-> s.error]]
    ELSE [s EXCEPT !.pc = "done",
                   !.resp = [status |-> 200, success |-> "true", error |-> ""]]

\* app.post('/test'): res.json({success: true, ...}) or res.status(500).json({error})
TestRespond(s) ==
    IF s.thrown
    THEN [s EXCEPT !.pc = "done",
                   !.resp = [status |-> 500, success |-> "none", error |-> s.error]]
    ELSE [s EXCEPT !.pc = "done",
                   !.resp = [status |-> 200, success |-> "true", error |-> ""]]

\* control comes back to the route handler, normally or with an exception
Finish(s, threw, msg) ==
    LET t == [s EXCEPT !.thrown = threw, !.error = msg]
    IN  IF s.req.endpoint = "test" THEN TestRespond(t) ELSE WebhookRespond(t)

----------------------------------------------------------------------------
(* Handlers *)

\* the catch of handleUpdatedOpportunity logs and does not rethrow
UpdatedCatch(s, msg) == Finish(s, FALSE, "")

\* handleNewOpportunity returns or throws to its caller
NewOpportunityExit(s, threw, msg) ==
    IF threw /\ s.handler = "handleUpdatedOpportunity"
    THEN UpdatedCatch(s, msg)
    ELSE Finish(s, threw, msg)

ProjectCall(data) ==
    Call("createProject", 0, 0, formatProjectName(data), getProjectColor(data), 0)

\* the created project kept in one variable of the module, which every
\* delivery overwrites: it holds the project created last
SectionCallSharedProject(s, i) ==
    LET created == {s.project} \cup {delivery[e].project : e \in Slots}
        latest == CHOOSE g \in created : \A h \in created : h <= g
    IN  Call("createSection", latest, i, Sections[i], "", 0)

SectionCall(s, i) == Call("createSection", s.project, i, Sections[i], "", 0)

ListCall(s) == Call("listSections", s.project, 0, "", "", 0)

\* a lookup that files the task under the first listed section when no name matches
FindSectionOrFirst(listing, name) ==
    IF \E x \in listing : x.name = name
    THEN (CHOOSE x \in listing : x.name = name).gid
    ELSE IF listing # {}
    THEN (CHOOSE x \in listing : \A y \in listing : x.gid <= y.gid).gid
    ELSE 0

\* sections.find(s => s.name === taskData.section): its gid, 0 when not found
FindSection(listing, name) ==
    IF \E x \in listing : x.name = name
    THEN (CHOOSE x \in listing : x.name = name).gid
    ELSE 0

TaskCall(s, i) ==
    Call("createTask", s.project, i, Tasks[i].name, "",
         FindSection(s.sections, Tasks[i].section))

createAsanaProject(s) ==
    IF ~token
    THEN NewOpportunityExit(s, FALSE, "")
    ELSE Issue(s, ProjectCall(s.req.data))

\* data.name at line 76 is read before the try
handleNewOpportunity(s) ==
    IF ~s.req.hasData
    THEN NewOpportunityExit(s, TRUE, "Cannot read properties of undefined")
    ELSE createAsanaProject(s)

handleUpdatedOpportunity(s) ==
    IF ~s.req.hasData
    THEN Finish(s, TRUE, "Cannot read properties of undefined")
    ELSE LET projectGid == findProjectByOpportunityId(IdOf(s.req.data))
         IN  IF projectGid # 0
             THEN Issue(s, Call("updateProject", projectGid, 0,
                                formatProjectName(s.req.data), "", 0))
             ELSE handleNewOpportunity(s)

RelatedId(data) ==
    IF Truthy(data, "relatedOpportunityId") THEN data.relatedOpportunityId
    ELSE IF Truthy(data, "opportunityId") THEN data.opportunityId
    ELSE ""

handleActivity(s) ==
    IF ~s.req.hasData
    THEN Finish(s, TRUE, "Cannot read properties of undefined")
    ELSE LET projectGid == IF RelatedId(s.req.data) # ""
                           THEN findProjectByOpportunityId(RelatedId(s.req.data))
                           ELSE 0
         IN  IF projectGid # 0
             THEN Issue(s, Call("activityTask", projectGid, 0,
                                IF Truthy(s.req.data, "subject")
                                THEN s.req.data.subject ELSE "New Activity", "", 0))
             ELSE Finish(s, FALSE, "")

\* the chain with entity and action lowercased before the comparison
RouteIgnoreCase(entity, action) ==
    IF entity \in {"Opportunity", "opportunity", "OPPORTUNITY"}
       /\ action \in {"create", "created", "Created"}
    THEN "handleNewOpportunity"
    ELSE IF entity \in {"Opportunity", "opportunity", "OPPORTUNITY"}
            /\ action \in {"update", "updated", "UPDATE"}
    THEN "handleUpdatedOpportunity"
    ELSE IF entity \in {"Activity", "activity", "ACTIVITY"}
    THEN "handleActivity"
    ELSE "unhandled"

\* the chain with the parentheses around the entity alternatives left out:
\* a || b && c
RouteNoParens(entity, action) ==
    IF entity = "Opportunity"
       \/ (entity = "opportunity" /\ action \in {"create", "created"})
    THEN "handleNewOpportunity"
    ELSE IF entity = "Opportunity"
            \/ (entity = "opportunity" /\ action \in {"update", "updated"})
    THEN "handleUpdatedOpportunity"
    ELSE IF entity \in {"Activity", "activity"}
    THEN "handleActivity"
    ELSE "unhandled"

\* the if / else-if chain of the webhook route
Route(entity, action) ==
    IF entity \in {"Opportunity", "opportunity"} /\ action \in {"create", "created"}
    THEN "handleNewOpportunity"
    ELSE IF entity \in {"Opportunity", "opportunity"} /\ action \in {"update", "updated"}
    THEN "handleUpdatedOpportunity"
    ELSE IF entity \in {"Activity", "activity"}
    THEN "handleActivity"
    ELSE "unhandled"

Dispatch(s) ==
    LET h == Route(s.req.entity, s.req.action)
        t == [s EXCEPT !.handler = h]
    IN  CASE h = "handleNewOpportunity" -> handleNewOpportunity(t)
          [] h = "handleUpdatedOpportunity" -> handleUpdatedOpportunity(t)
          [] h = "handleActivity" -> handleActivity(t)
          [] OTHER -> Finish(t, FALSE, "")

----------------------------------------------------------------------------
(* Continuations: what the handler does when its outbound call returns *)

\* the sections posted together (Promise.all) instead of one after another
OnProjectFanOut(s, ok, gid) ==
    IF ok
    THEN LET t == [s EXCEPT !.project = gid, !.idx = NSections]
         IN  [t EXCEPT !.pc = "await",
                       !.calls = @ \o [i \in 1..NSections |->
                                          Call("createSection", gid, i, Sections[i], "", 0)]]
    ELSE NewOpportunityExit(s, TRUE, "Request failed")

\* createAsanaProject after axios.post(.../projects)
OnProject(s, ok, gid) ==
    IF ok
    THEN LET t == [s EXCEPT !.project = gid, !.idx = 1]
         IN  Issue(t, SectionCall(t, 1))
    ELSE NewOpportunityExit(s, TRUE, "Request failed")

\* the section loop without its inner try/catch: a rejection leaves the loop
\* and is caught by the outer catch of createProjectSections
OnSectionStopOnFailure(s, ok) ==
    IF ok /\ s.idx < NSections
    THEN LET t == [s EXCEPT !.idx = s.idx + 1]
         IN  Issue(t, Call("createSection", t.project, t.idx, Sections[t.idx], "", 0))
    ELSE Issue(s, Call("listSections", s.project, 0, "", "", 0))

\* the section loop stopping one short of the template
OnSectionOffByOne(s, ok) ==
    IF s.idx < NSections - 1
    THEN LET t == [s EXCEPT !.idx = s.idx + 1]
         IN  Issue(t, Call("createSection", t.project, t.idx, Sections[t.idx], "", 0))
    ELSE Issue(s, Call("listSections", s.project, 0, "", "", 0))

\* createProjectSections loop; after it createAsanaProject returns the project
\* and handleNewOpportunity enters createInitialTasks -> getProjectSections
OnSection(s, ok) ==
    IF s.idx < NSections
    THEN LET t == [s EXCEPT !.idx = s.idx + 1]
         IN  Issue(t, SectionCall(t, t.idx))
    ELSE Issue(s, ListCall(s))

\* getProjectSections asking again when its request failed
OnListRetry(s, ok) ==
    IF ok
    THEN LET t == [s EXCEPT !.sections = RemoteSections(s), !.idx = 1]
         IN  Issue(t, Call("createTask", t.project, 1, Tasks[1].name, "",
                           FindSection(t.sections, Tasks[1].section)))
    ELSE Issue(s, Call("listSections", s.project, 0, "", "", 0))

\* getProjectSections returns response.data.data, or [] from its catch
OnList(s, ok) ==
    LET t == [s EXCEPT !.sections = IF ok THEN RemoteSections(s) ELSE {},
                       !.idx = 1]
    IN  Issue(t, TaskCall(t, 1))

\* the task loop without its inner try/catch: a rejection reaches the caller
OnTaskFailFast(s, ok) ==
    IF ~ok
    THEN NewOpportunityExit(s, TRUE, "Request failed")
    ELSE IF s.idx < NTasks
    THEN LET t == [s EXCEPT !.idx = s.idx + 1]
         IN  Issue(t, Call("createTask", t.project, t.idx, Tasks[t.idx].name, "",
                           FindSection(t.sections, Tasks[t.idx].section)))
    ELSE NewOpportunityExit(s, FALSE, "")

\* createInitialTasks loop; after it storeProjectMapping and return
OnTask(s, ok) ==
    IF s.idx < NTasks
    THEN LET t == [s EXCEPT !.idx = s.idx + 1]
         IN  Issue(t, TaskCall(t, t.idx))
    ELSE NewOpportunityExit(s, FALSE, "")

\* updateAsanaProject and createTaskInProject swallow their errors
OnUpdate(s, ok) == Finish(s, FALSE, "")

OnActivityTask(s, ok) == Finish(s, FALSE, "")

LastCall(s) == s.calls[Len(s.calls)]

\* the handler continues after its awaited call; gid is the identifier the
\* remote API gives a created project
Resume(s, ok, gid) ==
    LET k == LastCall(s).kind
    IN  CASE k = "createProject" -> OnProject(s, ok, gid)
          [] k = "createSection" -> OnSection(s, ok)
          [] k = "listSections" -> OnList(s, ok)
          [] k = "createTask" -> OnTask(s, ok)
          [] k = "updateProject" -> OnUpdate(s, ok)
          [] OTHER -> OnActivityTask(s, ok)

\* the call whose return ends createInitialTasks
LastTask(s) == LastCall(s).kind = "createTask" /\ s.idx = NTasks

----------------------------------------------------------------------------
(* Formatter under test: the functions applied to one opportunity payload *)

NoOutput ==
    [done |-> FALSE, name |-> "", color |-> "", jobName |-> "", amount |-> "",
     notes |-> "", jobNotes |-> "", now |-> "", again |-> <<>>]

\* the fields of rec named in S
Pick(S, rec) == [f \in S |-> rec[f]]

FormatInputs == {EmptyData} \cup {[value |-> v] : v \in 0..MaxValue}

NameFields == {"jobNumber", "accountName", "name", "value"}

ValueSamples == {-1500, 0, 999, 125000}

\* every subset of the name parts, the account name also present but empty
NameInputs ==
    {Pick(S, [FullOpportunity EXCEPT !.value = v, !.accountName = a]) :
        S \in SUBSET NameFields, v \in ValueSamples, a \in {"Sample Company", ""}}

GroupSamples == {0, 1, 12, 99, 100, 234, 567, 999}

\* integers of up to three groups of three digits, of either sign
NumberSamples ==
    {sign * (m * 1000000 + t * 1000 + u) :
        sign \in {-1, 1}, m \in 0..MaxMillions, t \in GroupSamples, u \in GroupSamples}

NumberInputs == {[value |-> n] : n \in NumberSamples}

\* the fields whose notes line has a fallback, and the fields whose line is optional
FallbackFields ==
    {"id", "jobNumber", "jobStatus", "name", "accountName", "value", "probability",
     "stage", "closeDate", "ownerName", "description"}

OptionalFields == {"projectType", "equipmentType", "facility", "intranetJobUrl"}

\* every subset of the fallback fields with the optional lines all absent or
\* all present, and every subset of the optional lines
NoteInputs ==
    {Pick(S \cup X, FullOpportunity) :
        S \in SUBSET FallbackFields, X \in {{}, OptionalFields}}
    \cup {Pick(FallbackFields \cup X, FullOpportunity) : X \in SUBSET OptionalFields}

TextInputs == NameInputs \cup NumberInputs \cup NoteInputs

\* readings of new Date().toISOString()
Instants == {"2025-06-30T08:15:00.000Z", "2026-11-03T09:30:00.000Z"}

\* the project name and color of createAsanaProject's payload
Format ==
    /\ ~fout.done
    /\ fout' = [NoOutput EXCEPT !.done = TRUE, !.name = formatProjectName(fin),
                                !.color = getProjectColor(fin)]
    /\ UNCHANGED <<token, delivery, nextGid, mappingLog, fin>>

\* the texts built from one payload: the name and notes of both variants and
\* the grouped value of the "Value:" line
FormatText ==
    /\ ~fout.done
    /\ \E now \in Instants :
          fout' = [done |-> TRUE, name |-> formatProjectName(fin),
                   color |-> getProjectColor(fin),
                   jobName |-> formatProjectNameJob(fin),
                   amount |-> formatNumber(OrZero(fin, "value")),
                   notes |-> formatProjectNotes(fin, now),
                   jobNotes |-> formatProjectNotesJob(fin, now),
                   now |-> now, again |-> <<>>]
    /\ UNCHANGED <<token, delivery, nextGid, mappingLog, fin>>

\* the formatters evaluated once more on the same payload, at a clock reading
\* of its own
FormatAgain ==
    /\ fout.done
    /\ fout.again = <<>>
    /\ \E now \in Instants :
          fout' = [fout EXCEPT !.again =
                      <<[name |-> formatProjectName(fin),
                         color |-> getProjectColor(fin),
                         jobName |-> formatProjectNameJob(fin),
                         notes |-> formatProjectNotes(fin, now),
                         jobNotes |-> formatProjectNotesJob(fin, now),
                         now |-> now]>>]
    /\ UNCHANGED <<token, delivery, nextGid, mappingLog, fin>>

InitFormat ==
    /\ token = FALSE
    /\ delivery = [d \in Slots |-> Idle]
    /\ nextGid = 1
    /\ mappingLog = <<>>
    /\ fin \in FormatInputs
    /\ fout = NoOutput

NextFormat == Format

SpecFormat == InitFormat /\ [][NextFormat]_vars

InitText ==
    /\ token = FALSE
    /\ delivery = [d \in Slots |-> Idle]
    /\ nextGid = 1
    /\ mappingLog = <<>>
    /\ fin \in TextInputs
    /\ fout = NoOutput

NextText == FormatText

SpecText == InitText /\ [][NextText]_vars

WholeSamples == {0, 7, 999, 1234, 1234567}

FractionSamples == {1, 5, 25, 75, 125, 1234, 5678, 12345, 99999, 123456}

\* non-integer values +-(whole + frac / 10^k) with up to MaxDecimals
\* fractional digits, the last of them not zero
DecimalInputs ==
    UNION {{[value |-> [neg |-> n, whole |-> w, frac |-> f, k |-> k]] :
                n \in BOOLEAN, w \in WholeSamples,
                f \in {g \in FractionSamples : g < Pow10(k)}} :
           k \in 1..MaxDecimals}

\* formatNumber(data.value) of the "Value:" line for a non-integer value
FormatDecimal ==
    /\ ~fout.done
    /\ fout' = [NoOutput EXCEPT !.done = TRUE,
                                !.amount = formatNumberDecimal(fin.value)]
    /\ UNCHANGED <<token, delivery, nextGid, mappingLog, fin>>

InitDecimal ==
    /\ token = FALSE
    /\ delivery = [d \in Slots |-> Idle]
    /\ nextGid = 1
    /\ mappingLog = <<>>
    /\ fin \in DecimalInputs
    /\ fout = NoOutput

NextDecimal == FormatDecimal

SpecDecimal == InitDecimal /\ [][NextDecimal]_vars

NextAgain == FormatText \/ FormatAgain

SpecAgain == InitText /\ [][NextAgain]_vars

----------------------------------------------------------------------------
(* Actions *)

Fresh(r) == [Idle EXCEPT !.req = r]

Free(d) == delivery[d].pc \in {"idle", "done"}

\* the slot a new request takes
FreeSlot == CHOOSE d \in Slots : Free(d) /\ \A e \in Slots : Free(e) => d <= e

\* POST /webhook/pipeliner
Webhook(r) ==
    /\ \A d \in Slots : Free(d)
    /\ nextGid <= MaxProjects
    /\ delivery' = [delivery EXCEPT ![FreeSlot] = Dispatch(Fresh(r))]
    /\ UNCHANGED <<token, nextGid, mappingLog, fin, fout>>

\* POST /test
Test ==
    /\ \A d \in Slots : Free(d)
    /\ nextGid <= MaxProjects
    /\ delivery' = [delivery EXCEPT ![FreeSlot] =
            handleNewOpportunity([Fresh(TestRequest) EXCEPT !.handler = "handleNewOpportunity"])]
    /\ UNCHANGED <<token, nextGid, mappingLog, fin, fout>>

AfterCall(d, s, ok) ==
    /\ delivery' = [delivery EXCEPT ![d] = Resume(Settle(s), ok, nextGid)]
    /\ nextGid' = IF ok /\ LastCall(s).kind = "createProject" THEN nextGid + 1 ELSE nextGid
    /\ mappingLog' = IF LastTask(s)
                     THEN storeProjectMapping(IdOf(s.req.data), s.project)
                     ELSE mappingLog
    /\ UNCHANGED <<token, fin, fout>>

\* the awaited axios promise resolves
CallSucceeds(d) ==
    /\ delivery[d].pc = "await"
    /\ AfterCall(d, delivery[d], TRUE)

\* the awaited axios promise rejects
CallRejects(d) ==
    /\ delivery[d].pc = "await"
    /\ AfterCall(d, [delivery[d] EXCEPT !.failed = @ \cup {Len(delivery[d].calls)}], FALSE)

\* a rejection while the delivery has had fewer than MaxFailures
CallFails(d) ==
    /\ Cardinality(delivery[d].failed) < MaxFailures
    /\ CallRejects(d)

Init ==
    /\ token \in BOOLEAN
    /\ delivery = [d \in Slots |-> Idle]
    /\ nextGid = 1
    /\ mappingLog = <<>>
    /\ fin = EmptyData
    /\ fout = NoOutput

Next ==
    \/ \E r \in Requests : Webhook(r)
    \/ Test
    \/ \E d \in Slots : CallSucceeds(d)
    \/ \E d \in Slots : CallFails(d)

Spec == Init /\ [][Next]_vars

----------------------------------------------------------------------------
(* One creating delivery, any of whose outbound calls may reject *)

CreateRequests ==
    {[endpoint |-> "webhook", entity |-> "Opportunity", action |-> "create",
      hasData |-> TRUE, data |-> AcmeData],
     [endpoint |-> "webhook", entity |-> "opportunity", action |-> "updated",
      hasData |-> TRUE, data |-> OppData]}

\* the first request of the run
Create(r) ==
    /\ \A d \in Slots : delivery[d].pc = "idle"
    /\ delivery' = [delivery EXCEPT ![FreeSlot] = Dispatch(Fresh(r))]
    /\ UNCHANGED <<token, nextGid, mappingLog, fin, fout>>

InitBestEffort ==
    /\ token = TRUE
    /\ delivery = [d \in Slots |-> Idle]
    /\ nextGid = 1
    /\ mappingLog = <<>>
    /\ fin = EmptyData
    /\ fout = NoOutput

NextBestEffort ==
    \/ \E r \in CreateRequests : Create(r)
    \/ \E d \in Slots : CallSucceeds(d)
    \/ \E d \in Slots : CallRejects(d)

SpecBestEffort == InitBestEffort /\ [][NextBestEffort]_vars

----------------------------------------------------------------------------
(* Deliveries in flight together: express starts a route handler for every  *)
(* request as it arrives, and handlers interleave at their awaits            *)

\* the slot a request takes when each slot serves one request
IdleSlot ==
    CHOOSE d \in Slots :
        /\ delivery[d].pc = "idle"
        /\ \A e \in Slots : delivery[e].pc = "idle" => d <= e

\* POST /webhook/pipeliner while other deliveries may be awaiting
Arrive(r) ==
    /\ \E d \in Slots : delivery[d].pc = "idle"
    /\ delivery' = [delivery EXCEPT ![IdleSlot] = Dispatch(Fresh(r))]
    /\ UNCHANGED <<token, nextGid, mappingLog, fin, fout>>

\* the project-creation call rejects
ConcFails(d) ==
    /\ delivery[d].pc = "await"
    /\ LastCall(delivery[d]).kind = "createProject"
    /\ CallRejects(d)

InitConc ==
    /\ token = TRUE
    /\ delivery = [d \in Slots |-> Idle]
    /\ nextGid = 1
    /\ mappingLog = <<>>
    /\ fin = EmptyData
    /\ fout = NoOutput

NextConc ==
    \/ \E r \in CreateRequests : Arrive(r)
    \/ \E d \in Slots : CallSucceeds(d)
    \/ \E d \in Slots : ConcFails(d)

SpecConc == InitConc /\ [][NextConc]_vars

----------------------------------------------------------------------------
(* One creating delivery whose awaited calls all return or fail in the end *)

NextLive ==
    \/ \E r \in CreateRequests : Create(r)
    \/ \E d \in Slots : CallSucceeds(d)
    \/ \E d \in Slots : CallFails(d)

\* every awaited call eventually returns or fails
CallsReturn == \A d \in Slots : WF_vars(CallSucceeds(d) \/ CallFails(d))

SpecLive == InitBestEffort /\ [][NextLive]_vars /\ CallsReturn

----------------------------------------------------------------------------
(* Vocabulary of the properties *)

\* the canonical spelling of an entity or action string, whatever its casing
CanonEntity(e) ==
    CASE e \in {"Opportunity", "opportunity", "OPPORTUNITY"} -> "Opportunity"
      [] e \in {"Activity", "activity", "ACTIVITY"} -> "Activity"
      [] OTHER -> e

CanonAction(a) ==
    CASE a \in {"create"} -> "create"
      [] a \in {"created", "Created"} -> "created"
      [] a \in {"update", "UPDATE"} -> "update"
      [] a \in {"updated"} -> "updated"
      [] OTHER -> a

\* the fixed dispatch table, on canonical spellings
Table(entity, action) ==
    CASE entity = "Opportunity" /\ action \in {"create", "created"} -> "handleNewOpportunity"
      [] entity = "Opportunity" /\ action \in {"update", "updated"} -> "handleUpdatedOpportunity"
      [] entity = "Activity" -> "handleActivity"
      [] OTHER -> "unhandled"

IsWebhook(s) == s.req.endpoint = "webhook"

Answered(s) == s.pc = "done"

Ok200(s) == s.resp.status = 200 /\ s.resp.success = "true"

KindCount(s, k) == Cardinality({i \in 1..Len(s.calls) : s.calls[i].kind = k})

ProjectCallFailed(s) == \E i \in s.failed : s.calls[i].kind = "createProject"

\* an Opportunity create or update delivery, in a spelling the route accepts
IsOppCreate(s) ==
    s.req.entity \in {"Opportunity", "opportunity"} /\ s.req.action \in {"create", "created"}

IsOppUpdate(s) ==
    s.req.entity \in {"Opportunity", "opportunity"} /\ s.req.action \in {"update", "updated"}

\* k < 1000 written with three digits
Pad3(k) ==
    IF k < 10 THEN "00" \o ToString(k)
    ELSE IF k < 100 THEN "0" \o ToString(k)
    ELSE ToString(k)

\* the decimal digits of n >= 0 in groups of three counted from the right
RECURSIVE GroupedNat(_)
GroupedNat(n) ==
    IF n < 1000 THEN ToString(n)
    ELSE GroupedNat(n \div 1000) \o "," \o Pad3(n % 1000)

Grouped(n) == IF n < 0 THEN "-" \o GroupedNat(-n) ELSE GroupedNat(n)

\* part x before the parts already joined in rest; "" is an absent part
Sep(x, rest) ==
    IF x = "" THEN rest ELSE IF rest = "" THEN x ELSE x \o " - " \o rest

\* pat occurs in text at position i
StartsAt(text, i, pat) ==
    i + Len(pat) - 1 <= Len(text) /\ SubSeq(text, i, i + Len(pat) - 1) = pat

\* the first position at or after i where pat occurs in text, 0 when none
RECURSIVE Find(_, _, _)
Find(text, pat, i) ==
    IF i + Len(pat) - 1 > Len(text) THEN 0
    ELSE IF StartsAt(text, i, pat) THEN i
    ELSE Find(text, pat, i + 1)

Row(label, absent, fallback) == [label |-> label, absent |-> absent, fallback |-> fallback]

\* every label of rows occurs in text, each after the one before it, and the
\* label of an absent field is followed by its fallback up to the end of line
RECURSIVE LabelsInOrder(_, _, _)
LabelsInOrder(text, rows, from) ==
    \/ rows = <<>>
    \/ LET p == Find(text, rows[1].label, from)
           q == p + Len(rows[1].label)
       IN  /\ p # 0
           /\ rows[1].absent => StartsAt(text, q, rows[1].fallback \o "\n")
           /\ LabelsInOrder(text, Tail(rows), q)

JobRows(data) ==
    << Row("Job Number: ", ~Truthy(data, "jobNumber"), "N/A"),
       Row("Job Status: ", ~Truthy(data, "jobStatus"), "N/A") >>

\* the fixed labels of the notes in their order, jobRows after the first,
\* amounts prefixed by cur
NoteRows(data, jobRows, cur) ==
    << Row("Pipeliner ID: ", ~Truthy(data, "id"), "N/A") >>
    \o jobRows
    \o << Row("Opportunity Name: ", ~Truthy(data, "name"), "N/A"),
          Row("Account: ", ~Truthy(data, "accountName"), "N/A"),
          Row("Value: " \o cur, ~Truthy(data, "value"), "0"),
          Row("Probability: ", ~Truthy(data, "probability"), "0%"),
          Row("Expected Revenue: " \o cur,
              ~Truthy(data, "value") \/ ~Truthy(data, "probability"), "0"),
          Row("Stage: ", ~Truthy(data, "stage"), "N/A"),
          Row("Close Date: ", ~Truthy(data, "closeDate"), "Not set"),
          Row("Owner: ", ~Truthy(data, "ownerName"), "N/A"),
          Row("\n=== DESCRIPTION ===\n", ~Truthy(data, "description"),
              "No description provided"),
          Row("\n=== SYNC INFO ===\nCreated from Pipeliner webhook: ", FALSE, "") >>

\* positions of the listing call and of the first section and task calls in
\* the call sequence of a creating delivery
ListAt == NSections + 2

SectionAt(i) == 1 + i

TaskAt(i) == ListAt + i

SectionCallsFailed(s) == {i \in 1..NSections : SectionAt(i) \in s.failed}

TaskCallsFailed(s) == {i \in 1..NTasks : TaskAt(i) \in s.failed}

\* outbound calls of a delivery that were issued and have not returned or failed
InFlight(s) == Len(s.calls) - s.settled

\* the handler run on its own from the arrival of s.req: its first n calls
\* settle one after another, call i failing when i \in F, the created project
\* being given the identifier gid
AloneStep(s, F, gid) ==
    LET i == Len(s.calls)
        t == IF i \in F THEN [s EXCEPT !.failed = @ \cup {i}] ELSE s
    IN  Resume(Settle(t), i \notin F, gid)

RECURSIVE AloneRun(_, _, _, _)
AloneRun(s, n, F, gid) ==
    IF s.settled >= n \/ s.pc # "await" THEN s
    ELSE AloneRun(AloneStep(s, F, gid), n, F, gid)

Alone(s) == AloneRun(Dispatch(Fresh(s.req)), s.settled, s.failed, s.project)

\* no call of the delivery was issued twice
NoRetry(s) ==
    \A i, j \in 1..Len(s.calls) :
        i < j => <<s.calls[i].kind, s.calls[i].item>> # <<s.calls[j].kind, s.calls[j].item>>

\* text without the clock reading now that it ends with
BeforeStamp(text, now) == SubSeq(text, 1, Len(text) - Len(now))

EndsWith(text, now) ==
    Len(now) <= Len(text) /\ SubSeq(text, Len(text) - Len(now) + 1, Len(text)) = now

----------------------------------------------------------------------------
(* Properties *)

\* C1: a webhook delivery is answered 200 {success:true} unless an exception
\* reached the route handler's catch, and then 500 {success:false, error};
\* no other status is produced, for matched and unmatched pairs alike.
C1_StatusIs200Or500 ==
    \A d \in Slots :
        LET s == delivery[d]
        IN  IsWebhook(s) =>
              /\ s.resp.status \in {0, 200, 500}
              /\ (s.resp.status # 0) <=> Answered(s)
              /\ Answered(s) /\ ~s.thrown => Ok200(s)
              /\ Answered(s) /\ s.thrown =>
                    /\ s.resp.status = 500
                    /\ s.resp.success = "false"
                    /\ s.resp.error = s.error /\ s.error # ""

\* a webhook delivery whose project-creation call failed was answered 500
C1_Witness ==
    \E d \in Slots :
        LET s == delivery[d]
        IN  /\ IsWebhook(s) /\ Answered(s) /\ s.thrown
            /\ ProjectCallFailed(s)
            /\ s.resp.status = 500

\* C2: whenever the project-creation call of a webhook delivery fails (credential
\* configured), on create or on update falling through to creation, the
\* delivery is answered 500 success:false and issues no task-creation call.
C2_ProjectFailureIsFatal ==
    \A d \in Slots :
        LET s == delivery[d]
        IN  (IsWebhook(s) /\ Answered(s) /\ token /\ ProjectCallFailed(s)) =>
              /\ s.resp.status = 500
              /\ s.resp.success = "false"
              /\ KindCount(s, "createTask") = 0

\* C3: for every recognized pair and every payload with any fields absent, the
\* body without `data` included, a delivery none of whose outbound calls fails
\* is answered 200 success:true, absent name parts giving the placeholder name.
C3_MissingDataNeverFails ==
    \A d \in Slots :
        LET s == delivery[d]
        IN  (IsWebhook(s) /\ Answered(s) /\ s.failed = {}
             /\ Table(CanonEntity(s.req.entity), CanonAction(s.req.action)) # "unhandled") =>
              /\ Ok200(s)
              /\ (s.calls # <<>> /\ ~Truthy(s.req.data, "name")
                  /\ ~Truthy(s.req.data, "accountName") /\ ~Truthy(s.req.data, "value"))
                    => s.calls[1].name = "New Opportunity"

\* C4 as stated: under every casing of entity and action the delivery is routed
\* to the handler the table gives the canonical spelling.
C4_CaseInsensitiveDispatch ==
    \A d \in Slots :
        LET s == delivery[d]
        IN  (IsWebhook(s) /\ s.pc # "idle") =>
              s.handler = Table(CanonEntity(s.req.entity), CanonAction(s.req.action))

\* C4 amended: entity is matched in the spellings "Opportunity"/"opportunity"
\* and "Activity"/"activity" only and action in its exact lowercase spelling
\* only; a delivery spelled so is routed as the table says, an Activity with
\* any action goes to handleActivity, and any other casing is unhandled.
C4_ExactSpellingDispatch ==
    \A d \in Slots :
        LET s == delivery[d]
            e == s.req.entity
            a == s.req.action
        IN  (IsWebhook(s) /\ s.pc # "idle") =>
              /\ e \in {"Opportunity", "opportunity", "Activity", "activity"}
                 /\ a \in {"create", "created", "update", "updated"}
                    => s.handler = Table(CanonEntity(e), a)
              /\ e \in {"Activity", "activity"} => s.handler = "handleActivity"
              /\ e \notin {"Opportunity", "opportunity", "Activity", "activity"}
                    => s.handler = "unhandled"
              /\ e \in {"Opportunity", "opportunity"}
                 /\ a \notin {"create", "created", "update", "updated"}
                    => s.handler = "unhandled"

\* "OPPORTUNITY"/"Created" was delivered and went to no handler
C4_Witness ==
    \E d \in Slots :
        LET s == delivery[d]
        IN  /\ IsWebhook(s) /\ Answered(s)
            /\ s.req.entity = "OPPORTUNITY" /\ s.req.action = "Created"
            /\ s.handler = "unhandled" /\ s.calls = <<>>

\* C5: a delivery whose pair is not in the table (an entity that is neither
\* Opportunity nor Activity, or an Opportunity with an action other than
\* create/created/update/updated) is answered success:true at once and issues
\* no outbound call, with or without a credential.
C5_UnmatchedPairNoCalls ==
    \A d \in Slots :
        LET s == delivery[d]
            e == CanonEntity(s.req.entity)
            a == CanonAction(s.req.action)
        IN  (IsWebhook(s) /\ s.pc # "idle"
             /\ \/ e \notin {"Opportunity", "Activity"}
                \/ e = "Opportunity" /\ a \notin {"create", "created", "update", "updated"}) =>
              /\ Answered(s)
              /\ Ok200(s)
              /\ s.calls = <<>>

\* entity "Contact" with a credential configured: answered, no call
C5_Witness ==
    \E d \in Slots :
        LET s == delivery[d]
        IN  /\ token /\ IsWebhook(s) /\ Answered(s)
            /\ s.req.entity = "Contact" /\ s.req.hasData
            /\ Ok200(s) /\ s.calls = <<>>

\* C6: with no credential no delivery ever issues an outbound call, and every
\* delivery (POST /test, webhook Opportunity create/update, Activity) is
\* answered success:true.
C6_NoCredentialNoCalls ==
    ~token =>
        \A d \in Slots :
            LET s == delivery[d]
            IN  /\ s.calls = <<>>
                /\ s.pc # "await"
                /\ Answered(s) => s.resp.success = "true"

\* C7: an Opportunity create/created delivery carrying opportunity data, with a
\* credential and every outbound call succeeding, issues exactly: one
\* project-creation call (dark-orange for value 60000), the N section calls in
\* template order, one listing call, the M task calls in template order; all
\* but the first target the project the first call returned.
C7_CreateCallSequence ==
    \A d \in Slots :
        LET s == delivery[d]
        IN  (IsWebhook(s) /\ Answered(s) /\ IsOppCreate(s) /\ s.req.hasData
             /\ token /\ s.failed = {}) =>
              /\ Len(s.calls) = 1 + NSections + 1 + NTasks
              /\ s.calls[1].kind = "createProject"
              /\ s.project = nextGid - 1
              /\ (Has(s.req.data, "value") /\ s.req.data.value = 60000)
                    => s.calls[1].color = "dark-orange"
              /\ \A i \in 1..NSections :
                    /\ s.calls[1 + i].kind = "createSection"
                    /\ s.calls[1 + i].name = Sections[i]
                    /\ s.calls[1 + i].project = s.project
              /\ s.calls[2 + NSections].kind = "listSections"
              /\ s.calls[2 + NSections].project = s.project
              /\ \A i \in 1..NTasks :
                    /\ s.calls[2 + NSections + i].kind = "createTask"
                    /\ s.calls[2 + NSections + i].name = Tasks[i].name
                    /\ s.calls[2 + NSections + i].project = s.project

\* scenario 2: {entity:"Opportunity", action:"created", data: Acme, value 60000}
C7_Witness ==
    \E d \in Slots :
        LET s == delivery[d]
        IN  /\ token /\ IsWebhook(s) /\ Answered(s) /\ s.failed = {}
            /\ s.req.entity = "Opportunity" /\ s.req.action = "created"
            /\ s.req.hasData /\ s.req.data = AcmeData
            /\ Len(s.calls) = 18
            /\ s.calls[1].color = "dark-orange"
            /\ s.calls[18].kind = "createTask" /\ s.calls[18].project = s.project

\* C8: after any puts the store finds no project for any identifier that was
\* put; so no update-project call is ever issued, every Opportunity create or
\* update delivery carrying opportunity data (credential set, calls succeeding)
\* starts with a project-creation call, and the projects put for deliveries of
\* one identifier are pairwise distinct.
C8_MappingStoreIsStub ==
    /\ \A i \in 1..Len(mappingLog) : findProjectByOpportunityId(mappingLog[i].opp) = 0
    /\ \A i, j \in 1..Len(mappingLog) :
          i # j => mappingLog[i].gid # mappingLog[j].gid
    /\ \A d \in Slots :
          LET s == delivery[d]
          IN  /\ KindCount(s, "updateProject") = 0
              /\ (IsWebhook(s) /\ Answered(s) /\ (IsOppCreate(s) \/ IsOppUpdate(s))
                  /\ s.req.hasData /\ token /\ s.failed = {}) =>
                    /\ KindCount(s, "createProject") = 1
                    /\ s.calls[1].kind = "createProject"
                    /\ mappingLog # <<>>
                    /\ mappingLog[Len(mappingLog)] =
                          [opp |-> IdOf(s.req.data), gid |-> s.project]

\* two deliveries for "opp-1", the second an update, made two projects
C8_Witness ==
    /\ Len(mappingLog) = 2
    /\ mappingLog[1].opp = "opp-1" /\ mappingLog[2].opp = "opp-1"
    /\ mappingLog[1].gid # mappingLog[2].gid
    /\ \E d \in Slots :
          LET s == delivery[d]
          IN  /\ Answered(s) /\ IsOppUpdate(s) /\ s.failed = {}
              /\ s.project = mappingLog[2].gid

\* C9: every Activity delivery, with any action and whatever it references, is
\* answered 200 success:true and issues no outbound call.
C9_ActivityDropped ==
    \A d \in Slots :
        LET s == delivery[d]
        IN  (IsWebhook(s) /\ s.pc # "idle" /\ CanonEntity(s.req.entity) = "Activity") =>
              /\ Answered(s)
              /\ s.calls = <<>>
              /\ Ok200(s)

\* C10: the color is a step function of value with strict thresholds:
\* v > 100000 dark-red; 50000 < v <= 100000 dark-orange; 25000 < v <= 50000
\* light-orange; 0 < v <= 25000 light-green; absent or zero light-blue.
C10_ColorStepFunction ==
    fout.done =>
        IF Has(fin, "value") /\ fin.value # 0
        THEN /\ fin.value > 100000 => fout.color = "dark-red"
             /\ (fin.value > 50000 /\ fin.value <= 100000) => fout.color = "dark-orange"
             /\ (fin.value > 25000 /\ fin.value <= 50000) => fout.color = "light-orange"
             /\ (fin.value > 0 /\ fin.value <= 25000) => fout.color = "light-green"
        ELSE fout.color = "light-blue"

\* value 100000 exactly: still dark-orange
C10_Witness ==
    /\ fout.done
    /\ Has(fin, "value") /\ fin.value = 100000
    /\ fout.color = "dark-orange"


C12_GroupsOfThree ==
    fout.done =>
        LET n == IF Has(fin, "value") THEN fin.value ELSE 0
        IN  /\ fout.amount = Grouped(n)
            /\ n = 0 => fout.amount = "0"
            /\ n = 999 => fout.amount = "999"
            /\ n = 1234567 => fout.amount = "1,234,567"

\* a negative number of three groups
C12_Witness ==
    /\ fout.done
    /\ fin = [value |-> -1234567]
    /\ fout.amount = "-1,234,567"

C14_TestSameEnvelope ==
    \A d \in Slots :
        LET s == delivery[d]
        IN  (s.req.endpoint = "test" /\ Answered(s)) =>
              /\ ~ProjectCallFailed(s) => Ok200(s)
              /\ ProjectCallFailed(s) =>
                    /\ s.resp.status = 500
                    /\ s.resp.success = "false"
                    /\ s.resp.error = s.error /\ s.error # ""


\* C15: whichever of the N section-creation calls fail, the N template
\* sections are each attempted exactly once in template order (call 1 + i is
\* section i of the created project: a failure neither ends the loop nor is
\* repeated), the project is returned and the listing and the M task calls
\* follow.
C15_SectionFailuresSkipped ==
    \A d \in Slots :
        LET s == delivery[d]
        IN  s.project # 0 =>
              /\ \A i \in 1..NSections :
                    SectionAt(i) <= Len(s.calls) =>
                        s.calls[SectionAt(i)] =
                            Call("createSection", s.project, i, Sections[i], "", 0)
              /\ KindCount(s, "createSection") <= NSections
              /\ Len(s.calls) >= ListAt =>
                    /\ KindCount(s, "createSection") = NSections
                    /\ s.calls[ListAt].kind = "listSections"
                    /\ s.calls[ListAt].project = s.project
              /\ Answered(s) =>
                    /\ Len(s.calls) = TaskAt(NTasks)
                    /\ KindCount(s, "createTask") = NTasks

\* the first, a middle and the last section call failed and the tasks were made
C15_Witness ==
    \E d \in Slots :
        LET s == delivery[d]
        IN  /\ Answered(s) /\ s.project # 0
            /\ SectionCallsFailed(s) = {1, 4, NSections}
            /\ KindCount(s, "createSection") = NSections
            /\ KindCount(s, "createTask") = NTasks

\* C16: whichever of the M task-creation calls fail, the M template tasks are
\* each attempted exactly once in template order (a failure neither ends the
\* loop nor is repeated), the mapping is stored and the webhook delivery is
\* answered 200 success:true.
C16_TaskFailuresSkipped ==
    \A d \in Slots :
        LET s == delivery[d]
        IN  s.project # 0 =>
              /\ \A i \in 1..NTasks :
                    TaskAt(i) <= Len(s.calls) =>
                        /\ s.calls[TaskAt(i)].kind = "createTask"
                        /\ s.calls[TaskAt(i)].item = i
                        /\ s.calls[TaskAt(i)].name = Tasks[i].name
                        /\ s.calls[TaskAt(i)].project = s.project
              /\ KindCount(s, "createTask") <= NTasks
              /\ Answered(s) <=> (Len(s.calls) = TaskAt(NTasks) /\ s.pc # "await")
              /\ Answered(s) =>
                    /\ KindCount(s, "createTask") = NTasks
                    /\ Ok200(s)
                    /\ mappingLog = <<[opp |-> IdOf(s.req.data), gid |-> s.project]>>

\* 8 tasks, one of them failed: the other 7 calls succeeded, answered 200
C16_Witness ==
    \E d \in Slots :
        LET s == delivery[d]
        IN  /\ Answered(s) /\ s.project # 0 /\ NTasks = 8
            /\ s.failed = {TaskAt(3)}
            /\ Cardinality({i \in 1..NTasks : TaskAt(i) \notin s.failed}) = 7
            /\ Ok200(s)

\* C17: when the listing call fails the handler's list of sections is empty
\* and the M tasks are all created with no membership; when it succeeds, a
\* task carries a membership exactly when a section of its template name
\* exists in the project (its creation call did not fail), and the membership
\* names the delivery's project and that section's identifier.
C17_MembershipFollowsListing ==
    \A d \in Slots :
        LET s == delivery[d]
        IN  s.project # 0 =>
              /\ (ListAt \in s.failed) => s.sections = {}
              /\ (ListAt \in s.failed /\ Answered(s)) => KindCount(s, "createTask") = NTasks
              /\ \A i \in 1..NTasks :
                    TaskAt(i) <= Len(s.calls) =>
                        LET c == s.calls[TaskAt(i)]
                            J == {j \in 1..NSections \ SectionCallsFailed(s) :
                                    Sections[j] = Tasks[i].section}
                        IN  /\ c.project = s.project
                            /\ IF ListAt \in s.failed \/ J = {}
                               THEN c.section = 0
                               ELSE \E j \in J : c.section = SectionGid(s.project, j)

\* the listing failed: eight tasks, none with a membership
C17_Witness ==
    \E d \in Slots :
        LET s == delivery[d]
        IN  /\ Answered(s) /\ s.project # 0
            /\ s.failed = {ListAt}
            /\ \A i \in 1..NTasks :
                  /\ s.calls[TaskAt(i)].kind = "createTask"
                  /\ s.calls[TaskAt(i)].section = 0


\* C18: within one delivery at most one outbound call is in flight at any
\* time: a call is issued only when every earlier call of the delivery has
\* returned or failed, the handler is awaiting exactly while one call is in
\* flight, and the response is sent only when every call issued has returned
\* or failed.
C18_OneCallAtATime ==
    \A d \in Slots :
        LET s == delivery[d]
        IN  /\ InFlight(s) \in {0, 1}
            /\ (InFlight(s) = 1) <=> (s.pc = "await")
            /\ Answered(s) => s.settled = Len(s.calls)

\* answered after eighteen calls, one of which failed, all of them settled
C18_Witness ==
    \E d \in Slots :
        LET s == delivery[d]
        IN  /\ Answered(s) /\ Len(s.calls) = TaskAt(NTasks)
            /\ s.settled = Len(s.calls)
            /\ Cardinality(s.failed) = 1
            /\ s.resp.status = 200

\* C19: with several deliveries in flight and their calls interleaving in any
\* order, the calls issued by each answered delivery and its response are
\* those the handler produces when run alone on the same request with the
\* same call outcomes; every call after the first targets the project created by the
\* same delivery, memberships name sections of that project, and no two
\* deliveries have the same project.
C19_NoInterference ==
    /\ \A d \in Slots :
          LET s == delivery[d]
          IN  /\ Answered(s) => s = Alone(s)
              /\ \A i \in 2..Len(s.calls) :
                    /\ s.calls[i].project = s.project
                    /\ s.calls[i].section # 0 =>
                          \E j \in 1..NSections :
                              s.calls[i].section = SectionGid(s.project, j)
    /\ \A d, e \in Slots :
          (d # e /\ delivery[d].project # 0) => delivery[d].project # delivery[e].project

\* two deliveries overlapped: the one that arrived second had its project
\* created first, and both ran their eighteen calls
C19_Witness ==
    /\ delivery[1].project = 2 /\ delivery[2].project = 1
    /\ Answered(delivery[1]) /\ Answered(delivery[2])
    /\ Len(delivery[1].calls) = TaskAt(NTasks)
    /\ Len(delivery[2].calls) = TaskAt(NTasks)
    /\ delivery[1].calls[TaskAt(NTasks)].project = 2

\* C20: there is no timeout: a delivery leaves its await only in the step in
\* which its outbound call returns or fails, so it is never answered while a
\* call stays out; when every call eventually returns or fails every delivery
\* is eventually answered, its response never changes afterwards, and no call
\* is ever issued a second time.
C20_AnsweredOnlyWhenCallsReturn ==
    /\ \A d \in Slots : (delivery[d].pc = "await") ~> (delivery[d].pc = "done")
    /\ [][\A d \in Slots :
            /\ (delivery[d].pc = "await" /\ delivery'[d] # delivery[d]) =>
                  delivery'[d].settled = delivery[d].settled + 1
            /\ delivery[d].pc = "done" => delivery'[d] = delivery[d]]_vars
    /\ [](\A d \in Slots : NoRetry(delivery[d]))

\* the listing call failed once, was not repeated, and the delivery was answered
C20_Witness ==
    \E d \in Slots :
        LET s == delivery[d]
        IN  /\ Answered(s) /\ s.failed = {ListAt}
            /\ KindCount(s, "listSections") = 1
            /\ Len(s.calls) = TaskAt(NTasks)
            /\ s.resp.status = 200


C22_FractionPassesThrough ==
    fout.done =>
        fout.amount =
            (IF fin.value.neg THEN "-" ELSE "")
            \o GroupedNat(fin.value.whole) \o "."
            \o ZeroPad(ToString(fin.value.frac), fin.value.k)

====
